---- MODULE Spec2Model ----
(***************************************************************************)
(* Model of the line-animation / map-transition coordinator of             *)
(* google-map-storyboard (LinearAnimationManager + MapTransitionManager,   *)
(* src/unnamed/part_000).                                                  *)
(*                                                                         *)
(* Time is measured in ticks; one line animation (_ANIMATION_TIME_MS)      *)
(* lasts Ticks ticks, so an offset k stands for the fraction k / Ticks.    *)
(* The two polyline paths are sequences of points; the MVCArray            *)
(* operations follow Array.prototype.splice, which implements them.        *)
(***************************************************************************)
EXTENDS Integers, Sequences, FiniteSets, TLC

\* Longest path the editing actions build.
MaxLen == 3

\* Resolution of the clock: ticks per line animation.
Ticks == 3

\* Structural edits (insertAt, setAt, removeAt) made in one behaviour.
MaxEdits == 1

\* Longest path of the behaviours that set and unset the map.
SurfaceLen == 2

\* The waypoints of the paths the model starts from, in path order, and the
\* waypoint the editing operations are given.
NameSeq == <<"A", "B", "C", "D", "E", "F">>
Names == {NameSeq[i] : i \in 1 .. MaxLen} \cup {"W"}

\* A point is a record: a named location, or the great-circle interpolation
\* of two named locations a and b at fraction o / Ticks.
Pt(n) == [a |-> n, b |-> n, o |-> 0]

Waypoints == {Pt(n) : n \in Names}

\* The paths the model starts from: the first n waypoints, n <= MaxLen.
InitPaths == {[j \in 1 .. n |-> Pt(NameSeq[j])] : n \in 0 .. MaxLen}

\* The locations insertAt and setAt are given.
InputPoints == {Pt("W")}

\* JavaScript's undefined, where a location is expected.
Undef == Pt("undefined")

\* An interpolation one of whose ends is itself an interpolated point.
Blend == Pt("blend")

\* Centre of the map after fitBounds on at least two different locations.
Elsewhere == Pt("elsewhere")

IsNamed(p) == p.a = p.b /\ p.o = 0 /\ p.a \in Names

\* The location lists a direct call of fitBounds is given: one location, the
\* same location twice, two different locations, and lists with an undefined
\* entry behind or between them.
FitInputs ==
  <<  <<Pt("A")>>, <<Pt("A"), Pt("A")>>, <<Pt("A"), Pt("B")>>,
      <<Pt("A"), Pt("B"), Undef>>, <<Pt("A"), Undef, Pt("B")>>  >>

\* The locations a direct call of panTo is given.
PanInputs == <<Pt("A"), Pt("B"), Undef>>

\* Indices the callers pass: below, inside and beyond the path.
Indices == (0 - 1) .. MaxLen

\* Callbacks: none passed, the callback of the latest request ("cur"), the
\* callback of an earlier request ("old").
NoCb == "none"

Min(a, b) == IF a < b THEN a ELSE b
Max(a, b) == IF a > b THEN a ELSE b

VARIABLES
  prevLine,    \* _prevLine.getPath(): points with index <= current index
  nextLine,    \* _nextLine.getPath(): points with index >= current, reversed
  state,       \* _state
  forward,     \* _forward
  offset,      \* _offset, in ticks
  frames,      \* animation frames requested and not yet run or cancelled
  map,         \* whether MapTransitionManager._map is a map
  center,      \* map.getCenter()
  listeners,   \* once-listeners of the map's idle event
  cbCalls,     \* invocations of the latest request's callback (capped at 2)
  edits,       \* structural edits made so far
  run,         \* the next()/prev() that animates, until another call is made
  last         \* the last operation: its arguments and outcome

vars == <<prevLine, nextLine, state, forward, offset, frames, map, center,
          listeners, cbCalls, edits, run, last>>

----------------------------------------------------------------------------
(* google.maps.MVCArray, as used by the manager *)

\* Array.prototype.slice(from, to) for 0 <= from: elements from .. to - 1,
\* both clamped to the array.
Slice(path, from, to) ==
  LET lo == Min(from, Len(path))
      hi == Min(to, Len(path))
  IN  IF hi <= lo THEN <<>> ELSE [j \in 1 .. (hi - lo) |-> path[lo + j]]

\* Array.prototype.reverse().
Reverse(path) == [j \in 1 .. Len(path) |-> path[Len(path) + 1 - j]]

\* Array.prototype.splice's clamping of its start index.
SpliceStart(path, i) ==
  IF i < 0 THEN Max(Len(path) + i, 0) ELSE Min(i, Len(path))

\* An insertion that puts x behind the element at i.
MvcInsertBehind(path, i, x) ==
  LET k == Min(SpliceStart(path, i) + 1, Len(path))
  IN  Slice(path, 0, k) \o <<x>> \o Slice(path, k, Len(path))

\* MVCArray.insertAt(i, x): splice(i, 0, x); indices are 0-based.
MvcInsertAt(path, i, x) ==
  LET k == SpliceStart(path, i)
  IN  Slice(path, 0, k) \o <<x>> \o Slice(path, k, Len(path))

\* MVCArray.removeAt(i): splice(i, 1).
MvcRemoveAt(path, i) ==
  LET k == SpliceStart(path, i)
  IN  IF k >= Len(path) THEN path
      ELSE Slice(path, 0, k) \o Slice(path, k + 1, Len(path))

\* MVCArray.setAt(i, x): replaces element i; beyond the end it pads with
\* undefined and appends; a negative i sets no element.
MvcSetAt(path, i, x) ==
  IF i < 0 THEN path
  ELSE IF i < Len(path) THEN [path EXCEPT ![i + 1] = x]
  ELSE path \o [j \in 1 .. (i - Len(path)) |-> Undef] \o <<x>>

\* MVCArray.getAt(i): undefined outside the array.
MvcGetAt(path, i) ==
  IF i >= 0 /\ i < Len(path) THEN path[i + 1] ELSE Undef

\* MVCArray.pop().
MvcPop(path) == Slice(path, 0, Len(path) - 1)

\* google.maps.geometry.spherical.interpolate(from, to, fraction).
Interpolate(p, q, o) ==
  IF p = q \/ o = 0 THEN p
  ELSE IF o = Ticks THEN q
  ELSE IF IsNamed(p) /\ IsNamed(q) THEN [a |-> p.a, b |-> q.a, o |-> o]
  ELSE Blend

----------------------------------------------------------------------------
(* The program state as one record, so that a handler is a function on it *)

Cur ==
  [prevLine |-> prevLine, nextLine |-> nextLine, state |-> state,
   forward |-> forward, offset |-> offset, frames |-> frames, map |-> map,
   center |-> center, listeners |-> listeners, cbCalls |-> cbCalls,
   fired |-> <<>>, cmds |-> <<>>, threw |-> FALSE]

\* The state a step leads to, for formulas about one step.
Nxt ==
  [prevLine |-> prevLine', nextLine |-> nextLine', state |-> state',
   forward |-> forward', offset |-> offset', frames |-> frames', map |-> map',
   center |-> center', listeners |-> listeners', cbCalls |-> cbCalls',
   fired |-> last'.fired, cmds |-> last'.cmds, threw |-> last'.threw]

\* A caller passing a new callback makes every callback still held an earlier
\* request's, and starts the count of the new one.
NewRequest(s) ==
  [s EXCEPT
     !.frames = {[f EXCEPT !.cb = IF @ = "cur" THEN "old" ELSE @] : f \in @},
     !.listeners = {[l EXCEPT !.cb = IF @ = "cur" THEN "old" ELSE @] : l \in @},
     !.cbCalls = 0]

\* callback(): the caller's completion callback runs.
Invoke(s, cb) ==
  IF cb = NoCb THEN s
  ELSE [s EXCEPT !.fired = Append(@, cb),
                 !.cbCalls = IF cb = "cur" THEN Min(@ + 1, 2) ELSE @]

----------------------------------------------------------------------------
(* MapTransitionManager *)

\* google.maps.event.removeListener(this._idleListener)
removeIdleBehavior(s) ==
  [s EXCEPT !.listeners = {l \in @ : ~l.tracked}]

\* _uponMapIdle(handler) with a handler; h = [kind, loc, cb].
\* A callback that was not passed is no handler: only the removal happens.
uponMapIdle(s, h) ==
  LET r == removeIdleBehavior(s)
  IN  IF h.kind = "cb" /\ h.cb = NoCb THEN r
      ELSE [r EXCEPT !.listeners =
              @ \cup {[kind |-> h.kind, loc |-> h.loc, cb |-> h.cb,
                       tracked |-> TRUE]},
                     !.cmds = Append(@, "addListenerOnce")]

CbHandler(cb) == [kind |-> "cb", loc |-> Undef, cb |-> cb]
PanHandler(loc, cb) == [kind |-> "pan", loc |-> loc, cb |-> cb]

\* A panTo that runs the callback at once even when it pans.
panToEager(s, location, onTransitionComplete) ==
  LET r == removeIdleBehavior(s)
  IN  IF location # Undef /\ r.map /\ r.center # location
      THEN Invoke(uponMapIdle([r EXCEPT !.center = location,
                                        !.cmds = Append(@, "panTo")],
                              CbHandler(onTransitionComplete)),
                  onTransitionComplete)
      ELSE Invoke(r, onTransitionComplete)

\* A panTo that pans also when the centre is on the location already.
panToAlways(s, location, onTransitionComplete) ==
  LET r == removeIdleBehavior(s)
  IN  IF location # Undef /\ r.map
      THEN uponMapIdle([r EXCEPT !.center = location,
                                 !.cmds = Append(@, "panTo")],
                       CbHandler(onTransitionComplete))
      ELSE Invoke(r, onTransitionComplete)

panTo(s, location, onTransitionComplete) ==
  LET r == removeIdleBehavior(s)
  IN  IF location # Undef /\ r.map /\ r.center # location
      THEN uponMapIdle([r EXCEPT !.center = location,
                                 !.cmds = Append(@, "panTo")],
                       CbHandler(onTransitionComplete))
      ELSE Invoke(r, onTransitionComplete)

\* The locations the loop of fitBounds visits: up to the first falsy one.
RECURSIVE ValidPrefix(_)
ValidPrefix(locations) ==
  IF locations = <<>> \/ Head(locations) = Undef THEN <<>>
  ELSE <<Head(locations)>> \o ValidPrefix(Tail(locations))

fitBounds(s, locations, panToLastLocation, callback) ==
  IF ~s.map THEN s
  ELSE
    LET r == removeIdleBehavior(s)
        lastLocation == MvcGetAt(locations, Len(locations) - 1)
        seen == ValidPrefix(locations)
        hasDiffLocations == \E i \in 1 .. Len(seen) : seen[i] # lastLocation
        distinct == {seen[i] : i \in 1 .. Len(seen)}
        fitted == [r EXCEPT
                     !.center = IF Cardinality(distinct) = 1
                                THEN seen[1] ELSE Elsewhere,
                     !.cmds = Append(@, "fitBounds")]
    IN  IF hasDiffLocations
        THEN IF ~panToLastLocation
             THEN uponMapIdle(fitted, CbHandler(callback))
             ELSE uponMapIdle(fitted, PanHandler(lastLocation, callback))
        ELSE panTo(r, lastLocation, callback)

----------------------------------------------------------------------------
(* LinearAnimationManager: helpers and queries *)

setLast(path, location) == MvcSetAt(path, Len(path) - 1, location)

getPointOnLine(path, index) ==
  LET length == Len(path)
      i == IF index < 0 THEN Max(index + length, 0)
           ELSE Min(index, length - 1)
  IN  MvcGetAt(path, i)

isIdle(s) == s.state = "IDLE"

\* A current index that stays at the waypoint a forward animation leaves.
getCurrentIndexOfDeparture(s) ==
  LET index == Len(s.prevLine) - 1
  IN  IF isIdle(s) THEN index ELSE index - 1

getCurrentIndex(s) ==
  LET index == Len(s.prevLine) - 1
  IN  IF isIdle(s) \/ s.forward THEN index ELSE index - 1

\* A length that counts the moving point of an animation as a waypoint.
lengthWithMovingPoint(s) ==
  LET l == Len(s.prevLine) + Len(s.nextLine) - 1
  IN  IF l < 0 THEN 0 ELSE l

length(s) ==
  LET l == Len(s.prevLine) + Len(s.nextLine) - 1
  IN  IF l < 0 THEN 0 ELSE IF isIdle(s) THEN l ELSE l - 1

getHeadingOfAnimation(s) ==
  IF isIdle(s) THEN 0 ELSE IF s.forward THEN 1 ELSE 0 - 1

\* A hasNext that takes the moving point of an animation for a waypoint.
hasNextCountingMovingPoint(s) == Len(s.nextLine) > 1

hasNext(s) ==
  IF s.state = "ANIMATING" /\ s.forward THEN Len(s.nextLine) > 2
  ELSE Len(s.nextLine) > 1

hasPrev(s) ==
  IF s.state = "ANIMATING" /\ ~s.forward THEN Len(s.prevLine) > 2
  ELSE Len(s.prevLine) > 1

\* A cancellation that leaves the requested frame pending.
cancelAnimationKeeping(s) == s

\* window.cancelAnimationFrame(this._intervalId), unless idle.
cancelAnimation(s) ==
  IF isIdle(s) THEN s
  ELSE [s EXCEPT !.frames = {f \in @ : ~f.tracked}]

\* window.requestAnimationFrame(step...): _intervalId now names this frame.
requestFrame(s, first, resume, elapsed, cb) ==
  [s EXCEPT !.frames =
     {[f EXCEPT !.tracked = FALSE] : f \in @}
       \cup {[first |-> first, resume |-> resume, elapsed |-> elapsed,
              cb |-> cb, tracked |-> TRUE]}]

\* A clear that leaves the requested frame pending.
clearKeepingFrame(s) ==
  LET e == [s EXCEPT !.prevLine = <<>>, !.nextLine = <<>>]
  IN  [removeIdleBehavior(e) EXCEPT !.state = "IDLE"]

\* A clear that leaves the map's idle listener in place.
clearLines(s) ==
  LET c == cancelAnimation(s)
  IN  [c EXCEPT !.prevLine = <<>>, !.nextLine = <<>>, !.state = "IDLE"]

clear(s) ==
  LET c == cancelAnimation(s)
      e == [c EXCEPT !.prevLine = <<>>, !.nextLine = <<>>]
  IN  [removeIdleBehavior(e) EXCEPT !.state = "IDLE"]

\* A pause that leaves the requested frame pending.
pauseKeepingFrame(s) ==
  IF isIdle(s) THEN s
  ELSE removeIdleBehavior([s EXCEPT !.state = "PAUSED"])

pause(s) ==
  IF isIdle(s) THEN s
  ELSE removeIdleBehavior(cancelAnimation([s EXCEPT !.state = "PAUSED"]))

\* A re-framing that cancels the requested frame of the animation.
panToAnimatingLineSegmentStopping(s) ==
  IF s.state # "ANIMATING" THEN s
  ELSE fitBounds(cancelAnimation(s),
                 <<getPointOnLine(s.prevLine, 0 - 2),
                   getPointOnLine(s.nextLine, 0 - 2)>>, FALSE, NoCb)

panToAnimatingLineSegment(s) ==
  IF s.state # "ANIMATING" THEN s
  ELSE fitBounds(s, <<getPointOnLine(s.prevLine, 0 - 2),
                      getPointOnLine(s.nextLine, 0 - 2)>>, FALSE, NoCb)

\* A finish that always shortens the next line.
shortensNextAlways(s) == TRUE

\* shortenLine = (this._forward && this._nextLine) || this._prevLine
shortensNext(s) == s.forward

\* A finish that pans to the current location whatever finishTransition is.
finishAnimationAlwaysPanning(s, finishTransition, onTransitionComplete) ==
  IF isIdle(s) THEN s
  ELSE
    LET c == [cancelAnimation(s) EXCEPT !.state = "IDLE"]
        shortened == MvcPop(IF shortensNext(c) THEN c.nextLine
                            ELSE c.prevLine)
        currentLoc == getPointOnLine(shortened, 0 - 1)
        p == IF shortensNext(c) THEN [c EXCEPT !.nextLine = shortened]
             ELSE [c EXCEPT !.prevLine = shortened]
        d == IF c.forward
             THEN [p EXCEPT !.prevLine = setLast(@, currentLoc)]
             ELSE [p EXCEPT !.nextLine = setLast(@, currentLoc)]
    IN  panTo(d, currentLoc, onTransitionComplete)

finishAnimation(s, finishTransition, onTransitionComplete) ==
  IF isIdle(s) THEN s
  ELSE
    LET c == [cancelAnimation(s) EXCEPT !.state = "IDLE"]
        shortened == MvcPop(IF shortensNext(c) THEN c.nextLine
                            ELSE c.prevLine)
        currentLoc == getPointOnLine(shortened, 0 - 1)
        p == IF shortensNext(c) THEN [c EXCEPT !.nextLine = shortened]
             ELSE [c EXCEPT !.prevLine = shortened]
        d == IF c.forward
             THEN [p EXCEPT !.prevLine = setLast(@, currentLoc)]
             ELSE [p EXCEPT !.nextLine = setLast(@, currentLoc)]
    IN  IF finishTransition THEN panTo(d, currentLoc, onTransitionComplete)
        ELSE Invoke(d, onTransitionComplete)

\* An animation in progress is paused whichever way it runs.
stopAnimatingByPausing(s, fwd) ==
  IF s.state = "ANIMATING" THEN pause(s) ELSE s

\* An animation in progress is finished whichever way it runs.
stopAnimatingAbruptly(s, fwd) ==
  IF s.state = "ANIMATING" THEN finishAnimation(s, FALSE, NoCb) ELSE s

\* if (this._state === ANIMATING): an animation in progress is finished when
\* it runs the way asked for, and paused when it runs the other way.
stopAnimating(s, fwd) ==
  IF s.state = "ANIMATING"
  THEN IF fwd = s.forward THEN finishAnimation(s, FALSE, NoCb) ELSE pause(s)
  ELSE s

\* A start that appends the moving point also when it resumes a pause.
startAnimationAppendingAlways(s, fwd, onTransitionComplete) ==
  LET a == removeIdleBehavior(s)
      b == stopAnimating(a, fwd)
      c == [b EXCEPT !.forward = fwd]
      resume == c.state = "PAUSED"
      d == IF fwd
           THEN [c EXCEPT !.prevLine =
                   Append(@, getPointOnLine(c.prevLine, 0 - 1))]
           ELSE [c EXCEPT !.nextLine =
                   Append(@, getPointOnLine(c.nextLine, 0 - 1))]
      e == panToAnimatingLineSegment([d EXCEPT !.state = "ANIMATING"])
  IN  requestFrame(e, TRUE, resume, 0, onTransitionComplete)

\* _startAnimation(forward, onTransitionComplete), up to requesting the frame.
startAnimation(s, fwd, onTransitionComplete) ==
  LET a == removeIdleBehavior(s)
      b == stopAnimating(a, fwd)
      c == [b EXCEPT !.forward = fwd]
      resume == c.state = "PAUSED"
      d == IF resume THEN c
           ELSE IF fwd
           THEN [c EXCEPT !.prevLine =
                   Append(@, getPointOnLine(c.prevLine, 0 - 1))]
           ELSE [c EXCEPT !.nextLine =
                   Append(@, getPointOnLine(c.nextLine, 0 - 1))]
      e == panToAnimatingLineSegment([d EXCEPT !.state = "ANIMATING"])
  IN  requestFrame(e, TRUE, resume, 0, onTransitionComplete)

\* A first frame that starts from 0 also after a resume.
RawOffsetRestarting(s, f, delta) ==
  IF f.first THEN 0 ELSE f.elapsed + delta

\* The raw offset (fromOffset) the frame f computes, delta ticks after the
\* frame before it. f.elapsed is that earlier frame's currentTime - startTime;
\* the first frame after a resume starts from the stored offset instead.
RawOffset(s, f, delta) ==
  IF f.resume THEN IF s.forward THEN s.offset ELSE Ticks - s.offset
  ELSE IF f.first THEN 0 ELSE f.elapsed + delta

\* A frame that stores the raw offset whichever way the animation runs.
stepStoringRawOffset(s, f, delta) ==
  LET s0 == [s EXCEPT !.frames = @ \ {f}]
      fromOffset == RawOffset(s0, f, delta)
      s1 == [s0 EXCEPT !.offset = fromOffset]
      from == getPointOnLine(s1.prevLine, 0 - 2)
      to == getPointOnLine(s1.nextLine, 0 - 2)
      wayPoint == Interpolate(from, to, s1.offset)
      s2 == [s1 EXCEPT !.nextLine = setLast(@, wayPoint),
                       !.prevLine = setLast(@, wayPoint)]
  IN  IF fromOffset >= Ticks THEN finishAnimation(s0, TRUE, f.cb)
      ELSE IF from = Undef \/ to = Undef
      THEN [s1 EXCEPT !.threw = TRUE]
      ELSE requestFrame(s2, FALSE, FALSE, fromOffset, f.cb)

\* A frame that writes the interpolated point to nextLine only.
stepWritingNextOnly(s, f, delta) ==
  LET s0 == [s EXCEPT !.frames = @ \ {f}]
      fromOffset == RawOffset(s0, f, delta)
      s1 == [s0 EXCEPT !.offset = IF s0.forward THEN fromOffset
                                  ELSE Ticks - fromOffset]
      from == getPointOnLine(s1.prevLine, 0 - 2)
      to == getPointOnLine(s1.nextLine, 0 - 2)
      wayPoint == Interpolate(from, to, s1.offset)
      s2 == [s1 EXCEPT !.nextLine = setLast(@, wayPoint)]
  IN  IF fromOffset >= Ticks THEN finishAnimation(s0, TRUE, f.cb)
      ELSE IF from = Undef \/ to = Undef
      THEN [s1 EXCEPT !.threw = TRUE]
      ELSE requestFrame(s2, FALSE, FALSE, fromOffset, f.cb)

\* step(startTime, currentTime): the frame f runs.
step(s, f, delta) ==
  LET s0 == [s EXCEPT !.frames = @ \ {f}]
      fromOffset == RawOffset(s0, f, delta)
      s1 == [s0 EXCEPT !.offset = IF s0.forward THEN fromOffset
                                  ELSE Ticks - fromOffset]
      from == getPointOnLine(s1.prevLine, 0 - 2)
      to == getPointOnLine(s1.nextLine, 0 - 2)
      wayPoint == Interpolate(from, to, s1.offset)
      s2 == [s1 EXCEPT !.nextLine = setLast(@, wayPoint),
                       !.prevLine = setLast(@, wayPoint)]
  IN  IF fromOffset >= Ticks THEN finishAnimation(s0, TRUE, f.cb)
      ELSE IF from = Undef \/ to = Undef
      THEN [s1 EXCEPT !.threw = TRUE]   \* interpolate(undefined, ...) throws
      ELSE requestFrame(s2, FALSE, FALSE, fromOffset, f.cb)

setCurrentIndex(s, index, onTransitionComplete) ==
  LET a == finishAnimation(s, FALSE, NoCb)
      prevPath == a.prevLine
      popped == MvcGetAt(a.nextLine, Len(a.nextLine) - 1)
      nextPath == MvcPop(a.nextLine)
      totalPath == prevPath \o Reverse(nextPath)
      i == IF index < 0 THEN 0 ELSE Min(index, Len(totalPath) - 1)
      b == [a EXCEPT
              !.prevLine = Slice(totalPath, 0, i + 1),
              !.nextLine = Reverse(Slice(totalPath, Max(i, 0),
                                         Len(totalPath)))]
      locations == <<popped, MvcGetAt(totalPath, i)>>
  IN  fitBounds(b, locations, TRUE, onTransitionComplete)

\* An insertAt that takes the current index for an index behind it.
insertAtBehindCurrent(s, index, location) ==
  IF location = Undef THEN s
  ELSE
    LET currentIndex == Len(s.prevLine) - 1
        reverseIndex == Len(s.nextLine) + currentIndex - index
                          - (IF isIdle(s) THEN 0 ELSE 1)
        a == IF currentIndex < 0
             THEN [s EXCEPT !.prevLine = MvcInsertAt(@, 0, location),
                            !.nextLine = MvcInsertAt(@, 0, location)]
             ELSE IF index >= currentIndex
             THEN [s EXCEPT !.nextLine =
                     MvcInsertAt(@, reverseIndex, location)]
             ELSE [s EXCEPT !.prevLine = MvcInsertAt(@, index, location)]
    IN  panToAnimatingLineSegment(a)

insertAt(s, index, location) ==
  IF location = Undef THEN s
  ELSE
    LET currentIndex == Len(s.prevLine) - 1
        reverseIndex == Len(s.nextLine) + currentIndex - index
                          - (IF isIdle(s) THEN 0 ELSE 1)
        a == IF currentIndex < 0
             THEN [s EXCEPT !.prevLine = MvcInsertAt(@, 0, location),
                            !.nextLine = MvcInsertAt(@, 0, location)]
             ELSE IF index > currentIndex
             THEN [s EXCEPT !.nextLine =
                     MvcInsertAt(@, reverseIndex, location)]
             ELSE [s EXCEPT !.prevLine = MvcInsertAt(@, index, location)]
    IN  panToAnimatingLineSegment(a)

setAt(s, index, location) ==
  IF location = Undef THEN s
  ELSE
    LET currentIndex == Len(s.prevLine) - 1
        reverseIndex == Len(s.nextLine) - 1 + currentIndex - index
                          - (IF isIdle(s) THEN 0 ELSE 1)
        a == IF index = currentIndex /\ isIdle(s)
             THEN panTo([s EXCEPT !.prevLine = setLast(@, location),
                                  !.nextLine = setLast(@, location)],
                        location, NoCb)
             ELSE IF index < currentIndex
             THEN [s EXCEPT !.prevLine = MvcSetAt(@, index, location)]
             ELSE [s EXCEPT !.nextLine =
                     MvcSetAt(@, reverseIndex, location)]
    IN  panToAnimatingLineSegment(a)

\* An index past the end of the next line, where MVCArray removes nothing.
removeReverseIndexPastEnd(s, index) == Len(s.nextLine)

\* The index removeAt takes from the reversed next line.
removeReverseIndex(s, index) ==
  length(s) - index - 1 - (IF isIdle(s) THEN 0 ELSE 1)

\* A check that lets the current location go while two waypoints remain.
removeThrowsAboveTwo(s, index) ==
  LET totalLength == length(s)
      currentIndex == Len(s.prevLine) - 1
  IN  \/ isIdle(s) /\ index = currentIndex /\ totalLength > 2
      \/ /\ ~(isIdle(s) /\ index = currentIndex)
         /\ ~isIdle(s)
         /\ \/ index < 1 /\ index = currentIndex - 1
            \/ index = currentIndex /\ index = totalLength - 1

\* A check that guards only the first waypoint of an animated segment.
removeThrowsAtFrontOnly(s, index) ==
  LET totalLength == length(s)
      currentIndex == Len(s.prevLine) - 1
  IN  \/ isIdle(s) /\ index = currentIndex /\ totalLength > 1
      \/ /\ ~(isIdle(s) /\ index = currentIndex)
         /\ ~isIdle(s)
         /\ index < 1 /\ index = currentIndex - 1

\* Whether removeAt throws 'Cannot remove ...' for the (clamped) index.
removeThrows(s, index) ==
  LET totalLength == length(s)
      currentIndex == Len(s.prevLine) - 1
  IN  \/ isIdle(s) /\ index = currentIndex /\ totalLength > 1
      \/ /\ ~(isIdle(s) /\ index = currentIndex)
         /\ ~isIdle(s)
         /\ \/ index < 1 /\ index = currentIndex - 1
            \/ index = currentIndex /\ index = totalLength - 1

removeAt(s, idx) ==
  LET index == IF idx < 0 THEN 0 ELSE idx
      currentIndex == Len(s.prevLine) - 1
      a == IF isIdle(s) /\ index = currentIndex THEN clear(s)
           ELSE IF index > currentIndex
           THEN [s EXCEPT !.nextLine =
                   MvcRemoveAt(@, removeReverseIndex(s, index))]
           ELSE [s EXCEPT !.prevLine = MvcRemoveAt(@, index)]
  IN  IF removeThrows(s, index) THEN [s EXCEPT !.threw = TRUE]
      ELSE panToAnimatingLineSegment(a)

----------------------------------------------------------------------------
(* The operations of the callers, the frame clock and the map *)

IsEdit(op) == op \in {"insertAt", "setAt", "removeAt"}

NoRun == [kind |-> "none", from |-> 0, path |-> <<>>, fwd |-> TRUE,
          cb |-> FALSE, o |-> 0, wf |-> FALSE]

\* The waypoints of the path in order, without the animation's moving point.
LogicalPath(s) ==
  IF s.state = "IDLE" THEN s.prevLine \o Reverse(MvcPop(s.nextLine))
  ELSE MvcPop(s.prevLine) \o Reverse(MvcPop(s.nextLine))

\* An idle state that holds a path and a current index: both lines end at the
\* current waypoint, and every point is a waypoint.
IsPathState(s) ==
  /\ s.state = "IDLE"
  /\ s.prevLine # <<>> /\ s.nextLine # <<>>
  /\ s.prevLine[Len(s.prevLine)] = s.nextLine[Len(s.nextLine)]
  /\ \A j \in 1 .. Len(s.prevLine) : s.prevLine[j] \in Waypoints
  /\ \A j \in 1 .. Len(s.nextLine) : s.nextLine[j] \in Waypoints

\* The idle manager that holds no waypoint, as the constructor and clear()
\* leave it.
IsEmptyState(s) ==
  s.state = "IDLE" /\ s.prevLine = <<>> /\ s.nextLine = <<>>

\* An animating or paused state that holds a path and a segment of it: each
\* line ends in the moving point, after at least one waypoint.
IsSegmentState(s) ==
  /\ s.state # "IDLE"
  /\ Len(s.prevLine) >= 2 /\ Len(s.nextLine) >= 2
  /\ s.prevLine[Len(s.prevLine)] = s.nextLine[Len(s.nextLine)]
  /\ \A j \in 1 .. (Len(s.prevLine) - 1) : s.prevLine[j] \in Waypoints
  /\ \A j \in 1 .. (Len(s.nextLine) - 1) : s.nextLine[j] \in Waypoints

\* How next()/prev() in direction fwd takes up the animation: a start from
\* idle, a restart (animating that way already), a resume (paused that way) or
\* a reversal (animating or paused the other way).
RunKind(fwd) ==
  IF state = "IDLE" THEN "start"
  ELSE IF forward # fwd THEN "reverse"
  ELSE IF state = "PAUSED" THEN "resume"
  ELSE "restart"

\* The run a step leaves: next()/prev() that animates begins one, the frames
\* and the map's idle events continue it, any other call of the manager ends it.
\* A direct call of the coordinator's fitBounds begins a run of its own: it
\* keeps the locations (path) and panToLastLocation (fwd) of the call, whether
\* a map was set (wf), and counts in from the map's idle events since; only
\* the map's idle events continue it.
RunAfter(op, idx, first, started, cb) ==
  IF op \in {"next", "prev"} /\ started
  THEN [kind |-> RunKind(op = "next"), from |-> getCurrentIndex(Cur),
        path |-> LogicalPath(Cur), fwd |-> (op = "next"),
        cb |-> (cb # NoCb), o |-> offset, wf |-> (IsPathState(Cur) \/ IsSegmentState(Cur))]
  ELSE IF op = "fitBounds"
  THEN [kind |-> "fit", from |-> 0, path |-> FitInputs[idx], fwd |-> first,
        cb |-> (cb # NoCb), o |-> 0, wf |-> map]
  ELSE IF op = "idle" /\ run.kind = "fit"
  THEN [run EXCEPT !.from = Min(@ + 1, 2)]
  ELSE IF op \in {"frame", "idle"} /\ run.kind # "fit" THEN run
  ELSE NoRun

EditsLeft == edits < MaxEdits

\* A call that passes a callback starts a new request.
Enter(cb) == IF cb = NoCb THEN Cur ELSE NewRequest(Cur)

CallerCbs == {NoCb, "cur"}

\* What the program itself holds of a state.
ProgramState(s) ==
  <<s.prevLine, s.nextLine, s.state, s.forward, s.offset, s.frames, s.map,
    s.center, s.listeners>>

\* The step of operation op: s is the state it leaves, idx its index argument
\* (for a frame, the raw offset the frame computed), first whether a frame was
\* the first of its animation. The step records what the caller can observe
\* of it: the length, current index and state before, whether the lines held
\* a path before (wf), whether a callback was passed (cb), whether the call
\* threw, whether it changed the
\* program's state (same) or the two lines (kept).
Commit(s, op, idx, first, started, cb) ==
  /\ edits' = IF IsEdit(op) THEN edits + 1 ELSE edits
  /\ run' = RunAfter(op, idx, first, started, cb)
  /\ prevLine' = s.prevLine
  /\ nextLine' = s.nextLine
  /\ state' = s.state
  /\ forward' = s.forward
  /\ offset' = s.offset
  /\ frames' = s.frames
  /\ map' = s.map
  /\ center' = s.center
  /\ listeners' = s.listeners
  /\ cbCalls' = s.cbCalls
  /\ last' = [op |-> op, idx |-> idx, first |-> first, threw |-> s.threw,
              fired |-> s.fired, cmds |-> s.cmds, len |-> length(Cur),
              cur |-> getCurrentIndex(Cur), was |-> state,
              cb |-> (cb # NoCb),
              wf |-> (IsEmptyState(Cur) \/ IsPathState(Cur)
                        \/ IsSegmentState(Cur)),
              same |-> (ProgramState(s) = ProgramState(Enter(cb))),
              kept |-> (s.prevLine = prevLine /\ s.nextLine = nextLine)]


\* An idle manager holding the path p with its current index at c, as
\* insertAt and setCurrentIndex leave it; the empty manager is the one the
\* constructor returns.
Init ==
  /\ \E p \in InitPaths :
       \E c \in (IF p = <<>> THEN {0} ELSE 0 .. (Len(p) - 1)) :
         /\ prevLine = Slice(p, 0, IF p = <<>> THEN 0 ELSE c + 1)
         /\ nextLine = Reverse(Slice(p, c, Len(p)))
  /\ state = "IDLE"
  /\ forward = TRUE
  /\ offset = 0
  /\ frames = {}
  /\ map = TRUE
  /\ center = Elsewhere
  /\ listeners = {}
  /\ cbCalls = 0
  /\ edits = 0
  /\ run = NoRun
  /\ last = [op |-> "new", idx |-> 0, first |-> FALSE, threw |-> FALSE,
             fired |-> <<>>, cmds |-> <<>>, len |-> 0, cur |-> 0,
             was |-> "IDLE", cb |-> FALSE, wf |-> TRUE, same |-> TRUE,
             kept |-> TRUE]

NextOp(cb) ==
  LET s == Enter(cb)
  IN  Commit(IF hasNext(s) THEN startAnimation(s, TRUE, cb) ELSE s,
             "next", 0, FALSE, hasNext(s), cb)

PrevOp(cb) ==
  LET s == Enter(cb)
  IN  Commit(IF hasPrev(s) THEN startAnimation(s, FALSE, cb) ELSE s,
             "prev", 0, FALSE, hasPrev(s), cb)

PauseOp == Commit(pause(Cur), "pause", 0, FALSE, FALSE, NoCb)

SetCurrentIndexOp(i, cb) ==
  Commit(setCurrentIndex(Enter(cb), i, cb), "setCurrentIndex", i, FALSE,
         FALSE, cb)

InsertAtOp(i, w) ==
  /\ EditsLeft
  /\ length(Cur) < MaxLen
  /\ Commit(insertAt(Cur, i, w), "insertAt", i, FALSE, FALSE, NoCb)

SetAtOp(i, w) ==
  /\ EditsLeft
  /\ Commit(setAt(Cur, i, w), "setAt", i, FALSE, FALSE, NoCb)

RemoveAtOp(i) ==
  /\ EditsLeft
  /\ Commit(removeAt(Cur, i), "removeAt", i, FALSE, FALSE, NoCb)

ClearOp == Commit(clear(Cur), "clear", 0, FALSE, FALSE, NoCb)

\* The browser runs a requested animation frame.
FrameOp(f, delta) ==
  Commit(step(Cur, f, delta), "frame", RawOffset(Cur, f, delta), f.first,
         FALSE, NoCb)

\* The map fires 'idle': a once-listener runs and is gone.
MapIdleOp(l) ==
  LET s == [Cur EXCEPT !.listeners = @ \ {l}]
  IN  Commit(IF l.kind = "pan" THEN panTo(s, l.loc, l.cb)
             ELSE Invoke(s, l.cb),
             "idle", 0, FALSE, FALSE, NoCb)

Next ==
  \/ \E cb \in CallerCbs : NextOp(cb)
  \/ \E cb \in CallerCbs : PrevOp(cb)
  \/ PauseOp
  \/ \E i \in Indices, cb \in CallerCbs : SetCurrentIndexOp(i, cb)
  \/ \E i \in Indices, w \in InputPoints : InsertAtOp(i, w)
  \/ \E i \in Indices, w \in InputPoints : SetAtOp(i, w)
  \/ \E i \in Indices : RemoveAtOp(i)
  \/ ClearOp
  \/ \E f \in frames :
       \E delta \in (IF f.first THEN {0} ELSE 1 .. (Ticks - f.elapsed)) :
         FrameOp(f, delta)
  \/ \E l \in listeners : MapIdleOp(l)

Spec == Init /\ [][Next]_vars

----------------------------------------------------------------------------
(* The idle manager with its map set and unset, and its                     *)
(* MapTransitionManager called directly. The animations, which run with the *)
(* map set, are in Spec.                                                    *)

\* LinearAnimationManager's set map(map): m is whether map is a google.maps.Map.
SetMapOp(m) ==
  Commit([Cur EXCEPT !.map = m], "setMap", 0, m, FALSE, NoCb)

\* fitBounds(FitInputs[k], panToLastLocation, cb)
FitBoundsOp(k, panToLastLocation, cb) ==
  Commit(fitBounds(Enter(cb), FitInputs[k], panToLastLocation, cb),
         "fitBounds", k, panToLastLocation, FALSE, cb)

\* panTo(PanInputs[k], cb)
PanToOp(k, cb) ==
  Commit(panTo(Enter(cb), PanInputs[k], cb), "panTo", k, FALSE, FALSE, cb)

RemoveIdleBehaviorOp ==
  Commit(removeIdleBehavior(Cur), "removeIdleBehavior", 0, FALSE, FALSE, NoCb)

\* As Init, with a map set or not; the paths are the shortest that animate
\* both ways.
InitSurface ==
  /\ \E p \in {q \in InitPaths : Len(q) <= SurfaceLen} :
       \E c \in (IF p = <<>> THEN {0} ELSE 0 .. (Len(p) - 1)) :
         /\ prevLine = Slice(p, 0, IF p = <<>> THEN 0 ELSE c + 1)
         /\ nextLine = Reverse(Slice(p, c, Len(p)))
  /\ state = "IDLE"
  /\ forward = TRUE
  /\ offset = 0
  /\ frames = {}
  /\ map \in BOOLEAN
  /\ center = Elsewhere
  /\ listeners = {}
  /\ cbCalls = 0
  /\ edits = 0
  /\ run = NoRun
  /\ last = [op |-> "new", idx |-> 0, first |-> FALSE, threw |-> FALSE,
             fired |-> <<>>, cmds |-> <<>>, len |-> 0, cur |-> 0,
             was |-> "IDLE", cb |-> FALSE, wf |-> TRUE, same |-> TRUE,
             kept |-> TRUE]

NextSurface ==
  \/ PauseOp
  \/ \E i \in 0 .. SurfaceLen, cb \in CallerCbs : SetCurrentIndexOp(i, cb)
  \/ \E i \in 0 .. SurfaceLen, w \in InputPoints : SetAtOp(i, w)
  \/ ClearOp
  \/ \E l \in listeners : MapIdleOp(l)
  \/ \E m \in BOOLEAN : SetMapOp(m)
  \/ \E k \in 1 .. Len(FitInputs), p \in BOOLEAN, cb \in CallerCbs :
       FitBoundsOp(k, p, cb)
  \/ \E k \in 1 .. Len(PanInputs), cb \in CallerCbs : PanToOp(k, cb)
  \/ RemoveIdleBehaviorOp

SpecSurface == InitSurface /\ [][NextSurface]_vars

----------------------------------------------------------------------------
(* The animation alone: next, prev, pause and finishAnimation called on a    *)
(* path that is not edited, the frames and the map's idle events. The paths  *)
(* include one whose two waypoints are the same location.                    *)

\* The path insertAt(0, A), insertAt(1, A) builds.
TwinPath == <<Pt("A"), Pt("A")>>

\* finishAnimation(finishTransition, cb), called by the manager's user.
FinishAnimationOp(finishTransition, cb) ==
  Commit(finishAnimation(Enter(cb), finishTransition, cb), "finishAnimation",
         0, finishTransition, FALSE, cb)

InitRun ==
  /\ \E p \in InitPaths \cup {TwinPath} :
       \E c \in (IF p = <<>> THEN {0} ELSE 0 .. (Len(p) - 1)) :
         /\ prevLine = Slice(p, 0, IF p = <<>> THEN 0 ELSE c + 1)
         /\ nextLine = Reverse(Slice(p, c, Len(p)))
  /\ state = "IDLE"
  /\ forward = TRUE
  /\ offset = 0
  /\ frames = {}
  /\ map = TRUE
  /\ center = Elsewhere
  /\ listeners = {}
  /\ cbCalls = 0
  /\ edits = 0
  /\ run = NoRun
  /\ last = [op |-> "new", idx |-> 0, first |-> FALSE, threw |-> FALSE,
             fired |-> <<>>, cmds |-> <<>>, len |-> 0, cur |-> 0,
             was |-> "IDLE", cb |-> FALSE, wf |-> TRUE, same |-> TRUE,
             kept |-> TRUE]

NextRun ==
  \/ \E cb \in CallerCbs : NextOp(cb)
  \/ \E cb \in CallerCbs : PrevOp(cb)
  \/ PauseOp
  \/ \E finishTransition \in BOOLEAN, cb \in CallerCbs :
       FinishAnimationOp(finishTransition, cb)
  \/ \E f \in frames :
       \E delta \in (IF f.first THEN {0} ELSE 1 .. (Ticks - f.elapsed)) :
         FrameOp(f, delta)
  \/ \E l \in listeners : MapIdleOp(l)

SpecRun == InitRun /\ [][NextRun]_vars

----------------------------------------------------------------------------
(* The component's manager (src/components/google-map-storyboard/            *)
(* TransitionManager.js). Its next, prev, pause, setCurrentIndex, clear,     *)
(* frames and MapTransitionManager are statement for statement those above;  *)
(* its removeAt moves the current index off a waypoint it is about to        *)
(* remove instead of throwing.                                               *)

\* _updateWaypoint(): sets the moving point from the two ends of the segment.
updateWaypoint(s) ==
  LET from == getPointOnLine(s.prevLine, 0 - 2)
      to == getPointOnLine(s.nextLine, 0 - 2)
      wayPoint == Interpolate(from, to, s.offset)
  IN  IF isIdle(s) THEN s
      ELSE IF from = Undef \/ to = Undef
      THEN [s EXCEPT !.threw = TRUE]   \* interpolate(undefined, ...) throws
      ELSE [s EXCEPT !.nextLine = setLast(@, wayPoint),
                     !.prevLine = setLast(@, wayPoint)]

\* An update that is required for the first waypoint only.
isUpdateRequiredAtFrontOnly(s, idx) ==
  LET totalLength == length(s)
      index == IF idx < 0 THEN 0 ELSE idx
      currentIndex == Len(s.prevLine) - 1
  IN  IF idx >= totalLength THEN FALSE
      ELSE IF totalLength <= 1 THEN FALSE
      ELSE IF isIdle(s) THEN index = currentIndex
      ELSE index < 1 /\ index = currentIndex - 1

isUpdateRequiredIfRemoveAt(s, idx) ==
  LET totalLength == length(s)
      index == IF idx < 0 THEN 0 ELSE idx
      currentIndex == Len(s.prevLine) - 1
  IN  IF idx >= totalLength THEN FALSE
      ELSE IF totalLength <= 1 THEN FALSE
      ELSE IF isIdle(s) THEN index = currentIndex
      ELSE IF index < 1 /\ index = currentIndex - 1 THEN TRUE
      ELSE index = totalLength - 1 /\ index = currentIndex

\* removeAt(index) of the component.
removeAtOfComponent(s, idx) ==
  LET totalLength == length(s)
      index == IF idx < 0 THEN 0 ELSE idx
      update == isUpdateRequiredIfRemoveAt(s, index)
      currentIndex == IF update THEN (IF index < 1 THEN 1 ELSE index - 1)
                      ELSE Len(s.prevLine) - 1
      a == IF update THEN setCurrentIndex(s, currentIndex, NoCb) ELSE s
      reverseIndex == totalLength - index - 1
      b == IF index < currentIndex
           THEN [a EXCEPT !.prevLine = MvcRemoveAt(@, index)]
           ELSE [a EXCEPT !.nextLine = MvcRemoveAt(@, reverseIndex)]
      c == updateWaypoint(b)
  IN  IF idx >= totalLength THEN s
      ELSE IF totalLength <= 1 THEN clear(s)
      ELSE IF ~isIdle(b) /\ (index = currentIndex - 1 \/ index = currentIndex)
      THEN IF c.threw THEN c ELSE panToAnimatingLineSegment(c)
      ELSE b

RemoveAtOfComponentOp(i) ==
  /\ EditsLeft
  /\ Commit(removeAtOfComponent(Cur, i), "removeAt", i, FALSE, FALSE, NoCb)

NextComponent ==
  \/ \E cb \in CallerCbs : NextOp(cb)
  \/ \E cb \in CallerCbs : PrevOp(cb)
  \/ PauseOp
  \/ \E i \in Indices, cb \in CallerCbs : SetCurrentIndexOp(i, cb)
  \/ \E i \in Indices : RemoveAtOfComponentOp(i)
  \/ ClearOp
  \/ \E f \in frames :
       \E delta \in (IF f.first THEN {0} ELSE 1 .. (Ticks - f.elapsed)) :
         FrameOp(f, delta)
  \/ \E l \in listeners : MapIdleOp(l)

SpecComponent == Init /\ [][NextComponent]_vars

----------------------------------------------------------------------------
(* The manager with a frame clock that keeps running: the browser runs      *)
(* every animation frame that stays requested (window.requestAnimationFrame).*)
(* The map's idle events are not promised here; a property that needs them  *)
(* assumes them.                                                            *)

\* A requested frame runs: the step of FrameOp, with the state the frame
\* leaves computed once.
FrameStep ==
  \E f \in frames :
    \E delta \in (IF f.first THEN {0} ELSE 1 .. (Ticks - f.elapsed)) :
      \E s \in {step(Cur, f, delta)} :
        Commit(s, "frame", RawOffset(Cur, f, delta), f.first, FALSE, NoCb)

\* The map fires 'idle': the step of MapIdleOp.
IdleStep ==
  \E l \in listeners :
    \E s \in {IF l.kind = "pan"
              THEN panTo([Cur EXCEPT !.listeners = @ \ {l}], l.loc, l.cb)
              ELSE Invoke([Cur EXCEPT !.listeners = @ \ {l}], l.cb)} :
      Commit(s, "idle", 0, FALSE, FALSE, NoCb)

SpecLive == Spec /\ WF_vars(FrameStep)

----------------------------------------------------------------------------
(* Properties *)

\* The last step was a frame that found the animation's time used up.
Completed == last.op = "frame" /\ last.idx >= Ticks

\* The waypoints a..b (0-based) of the path the model starts from.
PathOf(n) == [j \in 1 .. n |-> Pt(NameSeq[j])]

\* C1: an animation started by next() (prev()) from an idle path of at least
\* two waypoints and left to run ends idle with the current index one higher
\* (lower) and the waypoints of the path unchanged.
C1_NaturalCompletion ==
  (run.kind = "start" /\ run.wf /\ Completed) =>
    /\ state = "IDLE"
    /\ getCurrentIndex(Cur) = run.from + (IF run.fwd THEN 1 ELSE 0 - 1)
    /\ LogicalPath(Cur) = run.path
    /\ Len(run.path) >= 2
    /\ getHeadingOfAnimation(Cur) = 0

C1_Witness ==
  /\ run.kind = "start" /\ run.wf /\ Completed
  /\ ~run.fwd /\ run.from = 2 /\ run.path = PathOf(3)
  /\ getCurrentIndex(Cur) = 1

\* The scenario of C2: next(cb1) on the idle path [A, B, C] at index 0 with the
\* map attached, and no other call of the manager since.
InScenarioC2 ==
  /\ run.kind = "start" /\ run.wf /\ run.fwd /\ run.cb /\ map
  /\ run.path = PathOf(3) /\ run.from = 0

\* C2: in that scenario next(cb1) makes the state ANIMATING forward; the frame
\* that observes raw offset >= 1 leaves the manager idle at index 1; cb1 is
\* never invoked while the state is ANIMATING, never twice, and has been
\* invoked once when the manager is idle and no map idle listener is pending.
C2_NextWithCallback ==
  InScenarioC2 =>
    /\ last.op = "next" => state = "ANIMATING" /\ forward
    /\ state = "ANIMATING" => cbCalls = 0
    /\ Completed => state = "IDLE" /\ getCurrentIndex(Cur) = 1
    /\ cbCalls <= 1
    /\ (state = "IDLE" /\ listeners = {}) => cbCalls = 1
    /\ state # "PAUSED"

C2_Witness ==
  /\ InScenarioC2 /\ last.op = "idle" /\ last.fired = <<"cur">>
  /\ state = "IDLE" /\ getCurrentIndex(Cur) = 1 /\ cbCalls = 1
  /\ listeners = {} /\ frames = {}

\* The point both lines end in is the interpolation at offset o between the
\* ends of the animated segment.
TailsAt(o) ==
  LET wayPoint == Interpolate(getPointOnLine(prevLine, 0 - 2),
                              getPointOnLine(nextLine, 0 - 2), o)
  IN  /\ getPointOnLine(prevLine, 0 - 1) = wayPoint
      /\ getPointOnLine(nextLine, 0 - 1) = wayPoint

\* The animation has moved on from offset o in its direction.
MovedOnFrom(o) == IF forward THEN offset > o ELSE offset < o

FirstFrame == last.op = "frame" /\ last.first
LaterFrame == last.op = "frame" /\ ~last.first

\* C3: next()/prev() in the direction of a paused animation, as the first
\* call after pause(), appends no point and keeps the stored offset o; the
\* first frame after it writes the interpolated point at that same offset, and
\* the frames after that move on from o.
C3_ResumeKeepsOffset ==
  (run.kind = "resume" /\ run.wf) =>
    /\ last.op \in {"next", "prev"} =>
         last.kept /\ offset = run.o /\ state = "ANIMATING"
    /\ FirstFrame => offset = run.o /\ LogicalPath(Cur) = run.path
    /\ (FirstFrame /\ state = "ANIMATING" /\ ~last.threw) =>
         /\ TailsAt(run.o)
         /\ \A f \in frames :
              f.elapsed = (IF forward THEN run.o ELSE Ticks - run.o)
    /\ (LaterFrame /\ state = "ANIMATING") => MovedOnFrom(run.o)

C3_Witness ==
  /\ run.kind = "resume" /\ run.wf /\ ~run.fwd /\ run.o = 2 /\ run.path = PathOf(3)
  /\ LaterFrame /\ ~last.threw /\ state = "ANIMATING" /\ offset = 1
  /\ TailsAt(1)

\* C4 as stated: the first frame of an animation that reverses a paused or
\* running one is at the start of its edge, forward-sense offset 0 going
\* forward and 1 going backward.
C4_ReversalStartsAfresh ==
  (run.kind = "reverse" /\ run.wf /\ FirstFrame /\ state = "ANIMATING") =>
    offset = (IF forward THEN 0 ELSE Ticks)

\* C4, corrected: next()/prev() against the direction of a paused or running
\* animation turns it around in place: the call removes and appends no
\* point, pans nowhere, keeps the stored offset and only flips the heading;
\* the first frame after it is at the stored offset, and later frames move on
\* from there in the new direction.
C4_ReversalInPlace ==
  (run.kind = "reverse" /\ run.wf) =>
    /\ last.op \in {"next", "prev"} =>
         /\ last.kept /\ offset = run.o /\ state = "ANIMATING"
         /\ forward = run.fwd
         /\ getHeadingOfAnimation(Cur) = (IF run.fwd THEN 1 ELSE 0 - 1)
         /\ getPointOnLine(prevLine, 0 - 2) # getPointOnLine(nextLine, 0 - 2)
              => \A j \in 1 .. Len(last.cmds) : last.cmds[j] # "panTo"
    /\ FirstFrame => offset = run.o /\ LogicalPath(Cur) = run.path
    /\ (FirstFrame /\ state = "ANIMATING" /\ ~last.threw) => TailsAt(run.o)
    /\ (LaterFrame /\ state = "ANIMATING") => MovedOnFrom(run.o)

C4_Witness ==
  /\ run.kind = "reverse" /\ run.wf /\ ~run.fwd /\ run.o = 1 /\ run.path = PathOf(3)
  /\ run.from = 1
  /\ FirstFrame /\ ~last.threw /\ state = "ANIMATING" /\ offset = 1
  /\ getHeadingOfAnimation(Cur) = 0 - 1
  /\ TailsAt(1)

\* The path without its waypoint at index i.
WithoutIndex(path, i) == Slice(path, 0, i) \o Slice(path, i + 1, Len(path))

\* A state that holds a path and a current index or animated segment.
HoldsPath(s) == IsPathState(s) \/ IsSegmentState(s)

\* The indices of the two ends of the animated segment.
SegmentEnds(s) == {Len(s.prevLine) - 2, Len(s.prevLine) - 1}

\* C5 as stated: a removeAt(i) that is accepted, 0 <= i < length(), in any
\* state leaves the path as it was with exactly the waypoint at i removed.
C5_RemoveAtRemovesIndex ==
  [][(/\ last'.op = "removeAt" /\ ~last'.threw
      /\ HoldsPath(Cur)
      /\ last'.idx >= 0 /\ last'.idx < length(Cur))
     => LogicalPath(Nxt) = WithoutIndex(LogicalPath(Cur), last'.idx)]_vars

\* C6 as stated: while animating or paused, removeAt of the index of either
\* end of the animated segment throws and changes nothing.
C6_SegmentEndsRejected ==
  [][(/\ last'.op = "removeAt"
      /\ IsSegmentState(Cur)
      /\ last'.idx \in SegmentEnds(Cur))
     => last'.threw /\ last'.same]_vars

\* C7: removeAt(currentIndex()) on an idle manager of more than one waypoint
\* throws and leaves the lines, the state, the offset, the frames, the map's
\* idle listeners and so the length and current index as they were.
C7_IdleCurrentRejected ==
  (/\ last.op = "removeAt" /\ last.was = "IDLE" /\ last.len > 1
   /\ last.idx >= 0 /\ last.idx = last.cur)
  => /\ last.threw /\ last.same
     /\ length(Cur) = last.len /\ getCurrentIndex(Cur) = last.cur
     /\ state = "IDLE"

C7_Witness ==
  /\ last.op = "removeAt" /\ last.was = "IDLE" /\ last.len = 3
  /\ last.idx = 1 /\ last.cur = 1 /\ last.threw /\ last.same
  /\ listeners # {}

\* The scenario of C8: removeAt(2) while animating forward from index 1 on a
\* path of three waypoints.
InScenarioC8 ==
  /\ last.op = "removeAt" /\ last.idx = 2 /\ last.was = "ANIMATING"
  /\ forward /\ last.len = 3 /\ last.cur = 2

\* C8 as stated: in that scenario removeAt(2) does not throw and the length
\* becomes 2.
C8_FarEndRemoved ==
  InScenarioC8 => ~last.threw /\ length(Cur) = 2

\* C8, corrected: in that scenario removeAt(2) throws; the length stays 3 and
\* the lines, state, direction, offset and pending frame are as before.
C8_FarEndRejected ==
  InScenarioC8 =>
    /\ last.threw /\ last.same
    /\ length(Cur) = 3 /\ state = "ANIMATING" /\ getCurrentIndex(Cur) = 2

C8_Witness ==
  /\ InScenarioC8 /\ last.threw /\ last.same
  /\ offset = 1 /\ TailsAt(1) /\ LogicalPath(Cur) = PathOf(3)
  /\ \E f \in frames : f.tracked /\ f.elapsed = 1

\* C9: removeAt(0) on an idle manager of exactly one waypoint does not throw
\* and clears it: length 0, idle, both lines empty, no frame and no map idle
\* listener pending.
C9_LastWaypointClears ==
  (/\ last.op = "removeAt" /\ last.was = "IDLE" /\ last.len = 1
   /\ last.cur = 0 /\ last.idx = 0)
  => /\ ~last.threw
     /\ length(Cur) = 0 /\ isIdle(Cur)
     /\ prevLine = <<>> /\ nextLine = <<>>
     /\ frames = {} /\ listeners = {}

C9_Witness ==
  /\ last.op = "removeAt" /\ last.was = "IDLE" /\ last.len = 1
  /\ last.cur = 0 /\ last.idx = 0 /\ ~last.threw /\ ~last.same
  /\ prevLine = <<>> /\ nextLine = <<>> /\ listeners = {}

\* Removing index i would take an end of the animated segment, or the current
\* location of an idle manager that holds other waypoints.
Hazardous(s, i) ==
  IF isIdle(s) THEN i = getCurrentIndex(s) /\ length(s) > 1
  ELSE i \in SegmentEnds(s)

\* C10 as stated: in every state, insertAt(i, w) followed at once by a
\* removeAt(i) that is not hazardous restores the path, the current index and
\* the animation state.
C10_InsertRemoveRoundTrip ==
  \A i \in 0 .. length(Cur), w \in InputPoints :
    LET a == insertAt(Cur, i, w)
        b == removeAt(a, i)
    IN  (HoldsPath(Cur) /\ ~Hazardous(a, i) /\ ~b.threw) =>
          /\ LogicalPath(b) = LogicalPath(Cur)
          /\ getCurrentIndex(b) = getCurrentIndex(Cur)
          /\ b.state = state

C12_LengthByOne ==
  /\ (last.op = "insertAt" /\ last.wf) => length(Cur) = last.len + 1
  /\ (last.op = "removeAt" /\ last.wf /\ ~last.threw /\ last.len >= 1)
       => length(Cur) = last.len - 1

C12_Witness ==
  /\ last.op = "removeAt" /\ last.wf /\ ~last.threw
  /\ last.was = "ANIMATING" /\ last.len = 3 /\ last.idx = 2
  /\ length(Cur) = 2

\* C13 as stated: removeAt(i) and setAt(i, w) with i >= length() do not throw
\* and leave the two lines, the current index and the state as they were.
C13_OutOfRangeHarmless ==
  (last.op \in {"removeAt", "setAt"} /\ last.wf /\ last.idx >= last.len)
  => /\ ~last.threw /\ last.kept
     /\ state = last.was /\ getCurrentIndex(Cur) = last.cur

\* The reference list: path with w put in at index i, and with w in place of
\* its element at index i.
ListInsert(path, i, w) == Slice(path, 0, i) \o <<w>> \o Slice(path, i, Len(path))
ListReplace(path, i, w) ==
  Slice(path, 0, i) \o <<w>> \o Slice(path, i + 1, Len(path))

\* C14 as stated: on a manager that holds a path, insertAt(i, w) with i < 0
\* makes w the first waypoint and insertAt(i, w) with i > last index makes it
\* the last, the other waypoints keeping their order and the lines their
\* shared tail.
C14_InsertAtClamps ==
  [][(last'.op = "insertAt" /\ HoldsPath(Cur)) =>
       \E w \in InputPoints :
         /\ last'.idx < 0 => LogicalPath(Nxt) = <<w>> \o LogicalPath(Cur)
         /\ last'.idx >= length(Cur)
              => LogicalPath(Nxt) = LogicalPath(Cur) \o <<w>>
         /\ (last'.idx < 0 \/ last'.idx >= length(Cur)) => HoldsPath(Nxt)]_vars

\* C15: in every state that holds a path, insertAt(i, w) with
\* 0 <= i <= length() and setAt(i, w) with 0 <= i < length() change the path
\* as insertion and replacement at index i change a list, and keep the lines
\* a path; setAt at the current index of an idle manager puts w at the end of
\* both lines.
C15_EditsAsOnList ==
  \A w \in InputPoints :
    (HoldsPath(Cur) \/ IsEmptyState(Cur)) =>
      /\ \A i \in 0 .. length(Cur) :
           LET a == insertAt(Cur, i, w)
           IN  /\ LogicalPath(a) = ListInsert(LogicalPath(Cur), i, w)
               /\ HoldsPath(a) /\ a.state = state /\ ~a.threw
      /\ \A i \in 0 .. (length(Cur) - 1) :
           LET b == setAt(Cur, i, w)
           IN  /\ LogicalPath(b) = ListReplace(LogicalPath(Cur), i, w)
               /\ HoldsPath(b) /\ b.state = state /\ ~b.threw
               /\ (isIdle(Cur) /\ i = getCurrentIndex(Cur)) =>
                    /\ getPointOnLine(b.prevLine, 0 - 1) = w
                    /\ getPointOnLine(b.nextLine, 0 - 1) = w

C15_Witness ==
  /\ last.op = "insertAt" /\ last.wf /\ last.was = "PAUSED" /\ ~forward
  /\ last.idx = 1 /\ last.len = 2
  /\ LogicalPath(Cur) = <<Pt("A"), Pt("W"), Pt("B")>>
  /\ HoldsPath(Cur)

\* The step registered a listener of the map's idle event.
Registered == \E j \in 1 .. Len(last.cmds) : last.cmds[j] = "addListenerOnce"

\* The number of commands c the step gave the map.
Issued(c) == Cardinality({j \in 1 .. Len(last.cmds) : last.cmds[j] = c})

\* C16 as stated: at most one listener of the map's idle event is registered
\* at any time; after fitBounds, panTo and removeIdleBehavior no listener
\* registered before the call is left; removeIdleBehavior leaves none, and
\* changes nothing when none is pending or when called a second time.
C16_OneSubscription ==
  /\ Cardinality(listeners) <= 1
  /\ (last.op \in {"fitBounds", "panTo", "removeIdleBehavior"}
        /\ listeners # {}) => Registered
  /\ last.op = "removeIdleBehavior" => listeners = {}
  /\ removeIdleBehavior(removeIdleBehavior(Cur)) = removeIdleBehavior(Cur)
  /\ listeners = {} => removeIdleBehavior(Cur) = Cur

\* C17 as stated: once a later request has been made, no idle event of the
\* map runs the callback of an earlier request.
C17_NoStaleCompletion ==
  last.op = "idle" => \A j \in 1 .. Len(last.fired) : last.fired[j] # "old"

\* C18 as stated: with no map set, setCurrentIndex(i, cb), fitBounds(..., cb)
\* and panTo(location, cb) give the map no command, do not throw and run cb
\* once before they return.
C18_NoMapCompletesAtOnce ==
  (~map /\ last.cb /\ last.op \in {"setCurrentIndex", "fitBounds", "panTo"})
  => /\ Issued("fitBounds") = 0 /\ Issued("panTo") = 0
     /\ ~last.threw
     /\ last.fired = <<"cur">>

\* The frames and idle listeners that hold a callback with tag c.
Holders(c) ==
  Cardinality({f \in frames : f.cb = c})
    + Cardinality({l \in listeners : l.cb = c})

\* C19: the callback of a next(cb), prev(cb) or setCurrentIndex(i, cb) is run
\* at most once: no step runs two callbacks, the callback of the latest
\* request has run at most once and is then held by no frame and no
\* listener, and at most one frame or listener holds a callback at all; no
\* callback is run while the state is ANIMATING; a callback is run inside a
\* call or a frame only when panTo found no pan to make.
C19_OnceAndNotEarly ==
  /\ cbCalls <= 1
  /\ Len(last.fired) <= 1
  /\ Holders("cur") + Holders("old") <= 1
  /\ cbCalls = 1 => Holders("cur") = 0
  /\ last.fired # <<>> => state # "ANIMATING"
  /\ (last.fired # <<>> /\ last.op # "idle")
       => Issued("panTo") = 0 /\ ~Registered

C19_Witness ==
  /\ last.op = "setCurrentIndex" /\ last.cb /\ last.fired = <<"cur">>
  /\ last.cmds = <<>> /\ cbCalls = 1 /\ Holders("cur") = 0
  /\ last.was = "PAUSED"

\* The indices of the valid entries of locs, and the last valid entry.
ValidAt(locs) == {i \in 1 .. Len(locs) : locs[i] # Undef}

LastValid(locs) ==
  locs[CHOOSE i \in ValidAt(locs) : \A j \in ValidAt(locs) : j <= i]

TwoDistinctValid(locs) ==
  Cardinality({locs[i] : i \in ValidAt(locs)}) >= 2

\* C20: fitBounds(locations, panToLastLocation, cb) with a map set and at
\* least two distinct valid locations issues exactly one fitBounds command
\* and runs no callback before the first idle event. Without
\* panToLastLocation the first idle event runs cb. With it, the first idle
\* event either pans to the last valid location, and cb runs at the idle
\* event after that pan, or finds the centre on that location already and
\* runs cb at once.
C20_FitThenPanToLastValid ==
  (run.kind = "fit" /\ run.wf /\ TwoDistinctValid(run.path))
  => /\ run.from = 0 => Issued("fitBounds") = 1 /\ last.fired = <<>>
     /\ (run.from = 1 /\ ~run.fwd /\ run.cb) => last.fired = <<"cur">>
     /\ (run.from = 1 /\ run.fwd)
          => /\ center = LastValid(run.path)
             /\ \/ Issued("panTo") = 1 /\ last.fired = <<>>
                \/ Issued("panTo") = 0 /\ (run.cb => last.fired = <<"cur">>)
     /\ (run.from = 2 /\ run.fwd /\ run.cb) => last.fired = <<"cur">>

\* Locations that are all valid and all the same location.
AllCoincide(locs) ==
  /\ locs # <<>>
  /\ ValidAt(locs) = 1 .. Len(locs)
  /\ \A j \in 1 .. Len(locs) : locs[j] = locs[1]

\* The callback a step was passed, as the tag the model gives it.
PassedCb(passed) == IF passed THEN "cur" ELSE NoCb

\* C21 as stated: a call of fitBounds on locations that all coincide with p
\* leaves what panTo(p, cb) leaves, with panToLastLocation true and false: no
\* fitBounds command; cb run inside the call when the centre is on p already,
\* and otherwise one pan, with cb run at the idle event after it.
C21_CoincidingIsPanTo ==
  [][ /\ (last'.op = "fitBounds" /\ AllCoincide(FitInputs[last'.idx]))
          => /\ Nxt = panTo(Enter(PassedCb(last'.cb)),
                            FitInputs[last'.idx][1], PassedCb(last'.cb))
             /\ \A j \in 1 .. Len(last'.cmds) : last'.cmds[j] # "fitBounds"
             /\ \/ last'.cmds = <<>> /\ last'.fired = <<PassedCb(last'.cb)>>
                \/ last'.cmds = <<>> /\ ~last'.cb /\ last'.fired = <<>>
                \/ /\ last'.fired = <<>> /\ center' = FitInputs[last'.idx][1]
                   /\ \E j \in 1 .. Len(last'.cmds) : last'.cmds[j] = "panTo"
      /\ (last'.op = "idle" /\ run'.kind = "fit" /\ AllCoincide(run'.path)
            /\ run'.cb)
          => last'.fired = <<"cur">>
    ]_vars

\* Whether panTo(loc, ...) called in the current state has no pan to make.
NoPanNeeded(loc) == loc = Undef \/ ~map \/ center = loc

\* C22: a call panTo(location, cb) leaves no idle listener registered before
\* it. When the location is invalid, no map is set or the centre is on the
\* location, it issues no command and runs cb inside the call. Otherwise it
\* issues one panTo command and nothing else, runs no callback inside the
\* call and registers cb for the map's idle event; the idle event that
\* follows the call runs cb.
C22_PanTo ==
  [][ /\ last'.op = "panTo"
          => LET loc == PanInputs[last'.idx]
                 cb == PassedCb(last'.cb)
             IN  /\ listeners' # {}
                      => \E j \in 1 .. Len(last'.cmds) :
                           last'.cmds[j] = "addListenerOnce"
                 /\ Cardinality(listeners') <= 1
                 /\ NoPanNeeded(loc)
                      => /\ last'.cmds = <<>> /\ listeners' = {}
                         /\ center' = center
                         /\ last'.fired = IF last'.cb THEN <<cb>> ELSE <<>>
                 /\ ~NoPanNeeded(loc)
                      => /\ last'.fired = <<>> /\ center' = loc
                         /\ last'.cmds[1] = "panTo"
                         /\ \A j \in 2 .. Len(last'.cmds) :
                              last'.cmds[j] = "addListenerOnce"
                         /\ last'.cb
                              => listeners' = {[kind |-> "cb", loc |-> Undef,
                                                cb |-> cb, tracked |-> TRUE]}
                         /\ ~last'.cb => listeners' = {}
      /\ (last'.op = "idle" /\ last.op = "panTo" /\ last.cb)
          => last'.fired = <<"cur">> /\ last'.cmds = <<>>
    ]_vars

C22_Witness ==
  /\ last.op = "panTo" /\ last.cb /\ PanInputs[last.idx] = Pt("B")
  /\ last.cmds = <<"panTo", "addListenerOnce">> /\ last.fired = <<>>
  /\ center = Pt("B") /\ cbCalls = 0 /\ Holders("cur") = 1

\* C23 as stated: in every idle state the two lines are empty exactly when
\* length() is 0, and otherwise hold length() + 1 points between them, each
\* a waypoint, and end in the same point, the waypoint at the current index.
C23_BufferInvariant ==
  state = "IDLE"
  => /\ (length(Cur) = 0) <=> (prevLine = <<>> /\ nextLine = <<>>)
     /\ length(Cur) >= 1
          => /\ prevLine # <<>> /\ nextLine # <<>>
             /\ Len(prevLine) + Len(nextLine) = length(Cur) + 1
             /\ prevLine[Len(prevLine)] = nextLine[Len(nextLine)]
             /\ prevLine = Slice(LogicalPath(Cur), 0, getCurrentIndex(Cur) + 1)
             /\ nextLine = Reverse(Slice(LogicalPath(Cur), getCurrentIndex(Cur),
                                         length(Cur)))
             /\ \A j \in 1 .. length(Cur) : LogicalPath(Cur)[j] \in Waypoints

\* C24: clear() called in an idle, animating or paused state leaves the
\* manager idle and empty: length() 0, both lines empty, heading 0, no
\* animation frame requested and no idle listener registered, so that no
\* frame and no idle event can act on the cleared manager; clear() runs no
\* callback and gives the map no command.
C24_ClearLeavesNothing ==
  last.op = "clear"
  => /\ isIdle(Cur) /\ length(Cur) = 0
     /\ prevLine = <<>> /\ nextLine = <<>>
     /\ getHeadingOfAnimation(Cur) = 0
     /\ frames = {} /\ listeners = {}
     /\ last.fired = <<>> /\ last.cmds = <<>> /\ ~last.threw
     /\ ~ENABLED (\E f \in frames : FrameOp(f, 0))
     /\ ~ENABLED (\E l \in listeners : MapIdleOp(l))

C24_Witness ==
  /\ last.op = "clear" /\ last.was = "ANIMATING" /\ last.len = 3
  /\ last.cur = 1 /\ ~last.same /\ frames = {} /\ prevLine = <<>>

\* No waypoint lies behind (fwd) or before (~fwd) the place the manager is at
\* or is animating to: the manager is empty, or idle at the last (first)
\* index, or animating forward to the last (backward to the first) waypoint.
NoNeighbour(fwd) ==
  \/ IsEmptyState(Cur)
  \/ /\ IsPathState(Cur)
     /\ getCurrentIndex(Cur) = (IF fwd THEN length(Cur) - 1 ELSE 0)
  \/ /\ IsSegmentState(Cur) /\ state = "ANIMATING" /\ forward = fwd
     /\ getCurrentIndex(Cur) = (IF fwd THEN length(Cur) - 1 ELSE 0)

\* C25: next() (prev()) called when no neighbour exists in its direction
\* changes nothing: the state, both lines, the offset, the direction, the
\* requested frame with its callback and the registered idle listener are
\* left as they were, no command is given to the map and no callback runs.
C25_NoNeighbourNoOp ==
  [][ (\/ last'.op = "next" /\ NoNeighbour(TRUE)
       \/ last'.op = "prev" /\ NoNeighbour(FALSE))
      => /\ UNCHANGED <<prevLine, nextLine, state, forward, offset, map,
                        center>>
         /\ frames' = Enter(PassedCb(last'.cb)).frames
         /\ listeners' = Enter(PassedCb(last'.cb)).listeners
         /\ Cardinality(frames') = Cardinality(frames)
         /\ last'.fired = <<>> /\ last'.cmds = <<>> /\ ~last'.threw
         /\ cbCalls' = 0 \/ cbCalls' = cbCalls
    ]_vars

C25_Witness ==
  /\ last.op = "next" /\ last.cb /\ last.was = "ANIMATING" /\ last.same
  /\ state = "ANIMATING" /\ forward /\ IsSegmentState(Cur)
  /\ length(Cur) = 3 /\ getCurrentIndex(Cur) = 2
  /\ Holders("old") = 1 /\ offset > 0

C27_FrameIffAnimating ==
  /\ Cardinality(frames) <= 1
  /\ \A f \in frames : f.tracked
  /\ (frames # {}) <=> (state = "ANIMATING")
  /\ (last.was = "ANIMATING" /\ state # "ANIMATING") => frames = {}
  /\ last.op = "frame" => last.was = "ANIMATING"

\* C28: pause() called while ANIMATING makes the state PAUSED and leaves no
\* frame requested and no idle listener registered; both lines, with the
\* interpolated point last written, the direction and the offset are left as
\* they were. pause() called idle changes nothing; pause() called while PAUSED
\* changes nothing either, and pausing twice is pausing once.
C28_Pause ==
  [][ last'.op = "pause"
      => /\ UNCHANGED <<prevLine, nextLine, forward, offset, map, center>>
         /\ last'.fired = <<>> /\ last'.cmds = <<>> /\ ~last'.threw
         /\ state = "ANIMATING"
              => state' = "PAUSED" /\ frames' = {} /\ listeners' = {}
         /\ state = "IDLE" => UNCHANGED <<state, frames, listeners>>
         /\ state = "PAUSED"
              => /\ UNCHANGED <<state, frames, listeners>>
                 /\ frames = {} /\ listeners = {}
         /\ pause(Nxt) = Nxt
    ]_vars

C28_Witness ==
  /\ last.op = "pause" /\ last.was = "ANIMATING" /\ state = "PAUSED"
  /\ ~forward /\ offset \in 1 .. (Ticks - 1)
  /\ frames = {} /\ listeners = {}
  /\ IsSegmentState(Cur) /\ prevLine[Len(prevLine)] \notin Waypoints

\* A pause of an animation of which a frame has run since it was started or
\* resumed.
PauseAfterFrame ==
  /\ last'.op = "pause" /\ state = "ANIMATING"
  /\ \E f \in frames : ~f.first

SetCursorLeaves(i) ==
  LET path == LogicalPath(Cur)
      c == Min(Max(i, 0), Len(path) - 1)
  IN  /\ state' = "IDLE" /\ frames' = {} /\ ~last'.threw
      /\ LogicalPath(Nxt) = path
      /\ length(Nxt) = Len(path)
      /\ path = <<>> => prevLine' = <<>> /\ nextLine' = <<>>
      /\ path # <<>>
           => /\ getCurrentIndex(Nxt) = c
              /\ prevLine' = Slice(path, 0, c + 1)
              /\ nextLine' = Reverse(Slice(path, c, Len(path)))
      /\ (run.kind \in {"start", "restart", "resume", "reverse"} /\ run.wf)
           => LogicalPath(Nxt) = run.path

\* C30 as stated: setCurrentIndex(i, cb) called in any state leaves the manager idle
\* with no frame requested, the waypoints it held before the call (and before
\* the animation it ends), in order and without the moving point, the current
\* index at min(max(i, 0), length() - 1) and the lines rebuilt as the path up
\* to that index and the reversed path from it; on the empty manager it leaves
\* the lines empty; it never throws.
C30_SetCursor ==
  [][ last'.op = "setCurrentIndex" => SetCursorLeaves(last'.idx) ]_vars

\* The waypoint an animation or a paused animation leads to: the neighbour in
\* the direction of travel.
Neighbour ==
  IF forward THEN nextLine[Len(nextLine) - 1] ELSE prevLine[Len(prevLine) - 1]

\* What the callback passed to a step ran as, if it ran inside the step.
RanInside == IF last'.cb THEN <<"cur">> ELSE <<>>

\* finishAnimation called idle changes nothing and runs no callback; called
\* animating or paused it leaves the manager idle with no frame requested,
\* one point fewer in the two lines, both ending in the neighbour in the
\* direction of travel, and the waypoints of the path as they were.
FinishCollapses ==
  /\ ~last'.threw
  /\ state = "IDLE"
       => /\ UNCHANGED <<prevLine, nextLine, state, forward, offset, center>>
          /\ frames' = Enter(PassedCb(last'.cb)).frames
          /\ listeners' = Enter(PassedCb(last'.cb)).listeners
          /\ last'.fired = <<>> /\ last'.cmds = <<>>
  /\ state # "IDLE"
       => /\ state' = "IDLE" /\ frames' = {}
          /\ Len(prevLine') + Len(nextLine') = Len(prevLine) + Len(nextLine) - 1
          /\ prevLine'[Len(prevLine')] = Neighbour
          /\ nextLine'[Len(nextLine')] = Neighbour
          /\ LogicalPath(Nxt) = LogicalPath(Cur)
          /\ getCurrentIndex(Nxt) = getCurrentIndex(Cur)
          /\ ~last'.first
               => /\ last'.cmds = <<>> /\ center' = center
                  /\ last'.fired = RanInside

\* finishAnimation(true, cb) pans to the neighbour and leaves cb to the map's
\* idle event.
FinishPans ==
  /\ Issued("panTo")' = 1 /\ Issued("fitBounds")' = 0 /\ center' = Neighbour
  /\ last'.fired = <<>>
  /\ last'.cb => listeners' = {[kind |-> "cb", loc |-> Undef, cb |-> "cur",
                                tracked |-> TRUE]}

\* C31 as stated: finishAnimation(commit, cb) is a no-op when idle; otherwise
\* it collapses the lines to the neighbour in the direction of travel and
\* sets the state to IDLE; with commit false it gives the map no command and
\* runs cb inside the call; with commit true it pans to the neighbour and cb
\* runs only at the idle event after that pan.
C31_FinishPansThenCompletes ==
  [][ last'.op = "finishAnimation"
      => /\ FinishCollapses
         /\ (state # "IDLE" /\ last'.first) => FinishPans
    ]_vars

\* C31: as stated, except that with commit true and the map's centre on the
\* neighbour already no pan is made and cb runs inside the call.
C31_FinishPansUnlessThere ==
  [][ last'.op = "finishAnimation"
      => /\ FinishCollapses
         /\ (state # "IDLE" /\ last'.first /\ center # Neighbour)
              => FinishPans
         /\ (state # "IDLE" /\ last'.first /\ center = Neighbour)
              => /\ last'.cmds = <<>> /\ center' = center
                 /\ listeners' = {} /\ last'.fired = RanInside
    ]_vars

C31_Witness ==
  /\ last.op = "finishAnimation" /\ last.first /\ last.cb
  /\ last.was = "ANIMATING" /\ state = "IDLE"
  /\ last.fired = <<"cur">> /\ last.cmds = <<>>
  /\ LogicalPath(Cur) = TwinPath /\ center = Pt("A")

\* The one frame requested holds the callback of the run, and no idle
\* listener is registered.
OnlyRunsFrame(first, resume) ==
  /\ listeners = {}
  /\ Cardinality(frames) = 1
  /\ \A f \in frames :
       /\ f.first = first /\ f.resume = resume /\ f.tracked
       /\ f.cb = PassedCb(run.cb)

\* C32: next() (prev()) called while animating the same way, with a waypoint
\* behind the one the animation leads to, ends that animation at once: the
\* index moves on by one, no pan is made and the earlier callback is dropped
\* and never run; a new animation of the next segment is started, whose first
\* frame computes raw offset 0. Called while paused the same way it resumes:
\* the index and both lines stay and the first frame is a resuming one.
C32_RestartAndResume ==
  /\ (run.kind = "restart" /\ run.wf)
       => /\ LogicalPath(Cur) = run.path
          /\ \A j \in 1 .. Len(last.fired) : last.fired[j] = PassedCb(run.cb)
          /\ last.op \in {"next", "prev"}
               => /\ state = "ANIMATING" /\ forward = run.fwd
                  /\ getCurrentIndex(Cur)
                       = run.from + (IF run.fwd THEN 1 ELSE 0 - 1)
                  /\ getCurrentIndex(Cur) \in 0 .. (Len(run.path) - 1)
                  /\ getPointOnLine(IF run.fwd THEN prevLine ELSE nextLine,
                                    0 - 2) = run.path[run.from + 1]
                  /\ getPointOnLine(IF run.fwd THEN nextLine ELSE prevLine,
                                    0 - 2) = run.path[getCurrentIndex(Cur) + 1]
                  /\ getPointOnLine(prevLine, 0 - 2)
                       # getPointOnLine(nextLine, 0 - 2)
                       => Issued("panTo") = 0
                  /\ last.fired = <<>>
                  /\ OnlyRunsFrame(TRUE, FALSE)
          /\ (last.op = "frame" /\ last.first)
               => /\ last.idx = 0
                  /\ offset = (IF run.fwd THEN 0 ELSE Ticks)
  /\ (run.kind = "resume" /\ run.wf /\ last.op \in {"next", "prev"})
       => /\ state = "ANIMATING" /\ forward = run.fwd
          /\ getCurrentIndex(Cur) = run.from
          /\ last.kept /\ offset = run.o
          /\ last.fired = <<>>
          /\ OnlyRunsFrame(TRUE, TRUE)

C32_Witness ==
  /\ run.kind = "restart" /\ run.wf /\ run.fwd /\ run.cb /\ run.o > 0
  /\ run.path = PathOf(3) /\ run.from = 1
  /\ last.op = "frame" /\ last.first /\ offset = 0
  /\ getCurrentIndex(Cur) = 2 /\ state = "ANIMATING"

\* A call made while ANIMATING: a structural edit, setCurrentIndex, or
\* next()/prev() against the direction of the animation.
EditWhileAnimating == state = "ANIMATING" /\ IsEdit(last'.op)

SetCursorWhileAnimating == state = "ANIMATING" /\ last'.op = "setCurrentIndex"

TurnWhileAnimating ==
  /\ state = "ANIMATING"
  /\ \/ last'.op = "next" /\ ~forward /\ hasNext(Cur)
     \/ last'.op = "prev" /\ forward /\ hasPrev(Cur)

\* The frame requested by _startAnimation on a paused animation.
IsResumingFrame(f) == f.first /\ f.resume /\ f.elapsed = 0 /\ f.tracked

\* C33 as stated: a structural edit, setCurrentIndex and next()/prev() against
\* the direction, called while ANIMATING, each cancel the frame requested and
\* remove the idle listener registered: no frame and no listener pending
\* before the call is pending after it, but for the frame a turn requests.
C33_CallsCancelFrame ==
  [][ /\ (EditWhileAnimating \/ SetCursorWhileAnimating)
          => frames \cap frames' = {} /\ listeners \cap listeners' = {}
      /\ TurnWhileAnimating
          => /\ \A f \in frames' : IsResumingFrame(f)
             /\ listeners' = {}
    ]_vars

\* C33: setCurrentIndex called while ANIMATING cancels the frame requested and
\* leaves the manager idle; next()/prev() against the direction cancels it
\* and requests the one frame that resumes the other way; neither leaves an
\* idle listener registered before the call. A structural edit called while
\* ANIMATING leaves the frame requested and the state ANIMATING, whether it
\* throws or not: the animation goes on; it leaves no idle listener.
C33_OnlyCursorAndTurnCancel ==
  [][ /\ EditWhileAnimating
          => /\ frames' = frames /\ state' = "ANIMATING"
             /\ forward' = forward /\ offset' = offset
             /\ listeners' = {}
      /\ SetCursorWhileAnimating
          => /\ frames' = {} /\ state' = "IDLE"
             /\ listeners \cap listeners' = {}
      /\ TurnWhileAnimating
          => /\ Cardinality(frames') = 1 /\ state' = "ANIMATING"
             /\ \A f \in frames' : IsResumingFrame(f)
             /\ forward' # forward
             /\ listeners' = {}
    ]_vars

C33_Witness ==
  /\ last.op = "insertAt" /\ last.was = "ANIMATING" /\ last.wf /\ ~last.threw
  /\ state = "ANIMATING" /\ last.len = 2 /\ length(Cur) = 3
  /\ \E f \in frames : ~f.first /\ f.elapsed > 0
  /\ offset > 0

\* A frame that ran and did not complete the animation: its raw offset is
\* below the whole.
FrameWentOn == last.op = "frame" /\ last.idx < Ticks

\* The frame wrote the interpolated point to the end of both lines and
\* requested the one frame that follows it.
FrameMovedPoint ==
  /\ getPointOnLine(prevLine, 0 - 1) = getPointOnLine(nextLine, 0 - 1)
  /\ (Len(prevLine) >= 2 /\ Len(nextLine) >= 2)
       => getPointOnLine(prevLine, 0 - 1)
            = Interpolate(getPointOnLine(prevLine, 0 - 2),
                          getPointOnLine(nextLine, 0 - 2), offset)
  /\ state = "ANIMATING"
  /\ Cardinality(frames) = 1
  /\ \A f \in frames : ~f.first /\ ~f.resume /\ f.tracked /\ f.elapsed = last.idx

C35_IdleInsertKeepsCurrent ==
  [][ (last'.op = "insertAt" /\ state = "IDLE" /\ prevLine # <<>>
         /\ nextLine # <<>>)
        => /\ getCurrentIndex(Nxt)
                = getCurrentIndex(Cur)
                    + (IF last'.idx <= getCurrentIndex(Cur) THEN 1 ELSE 0)
           /\ getPointOnLine(prevLine', 0 - 1) = getPointOnLine(prevLine, 0 - 1)
           /\ getPointOnLine(nextLine', 0 - 1) = getPointOnLine(nextLine, 0 - 1)
           /\ Len(prevLine') + Len(nextLine')
                = Len(prevLine) + Len(nextLine) + 1
           /\ state' = "IDLE"
           /\ last'.cmds = <<>> /\ last'.fired = <<>> /\ ~last'.threw
           /\ frames' = frames /\ listeners' = listeners /\ center' = center
    ]_vars

C35_Witness ==
  /\ last.op = "insertAt" /\ last.was = "IDLE" /\ last.wf
  /\ last.cur = 1 /\ last.idx = 1 /\ last.len = 2
  /\ state = "IDLE" /\ getCurrentIndex(Cur) = 2
  /\ prevLine = <<Pt("A"), Pt("W"), Pt("B")>> /\ nextLine = <<Pt("B")>>

\* The component's removeAt(k) has to move the current index first: k is the
\* current index of the idle manager, or the first or last waypoint while it
\* is an end of the animation's segment.
MovesCurrentFirst(s, k) ==
  \/ isIdle(s) /\ k = getCurrentIndex(s)
  \/ ~isIdle(s) /\ k \in SegmentEnds(s) /\ k \in {0, length(s) - 1}

\* C36: the component's removeAt(i) never throws. With i >= length() it
\* changes nothing; with i < length() and length() <= 1 it leaves the path
\* empty and the manager idle; otherwise it removes exactly the waypoint at
\* index i (0 for a negative i) from the path. When that waypoint is the
\* current one of the idle manager, or the first or last waypoint and an end
\* of the animation's segment, the manager is left idle with no frame
\* requested, at the waypoint that was before the removed one (after it, for
\* index 0); in every other case the state and the requested frame are left
\* as they were.
C36_ComponentRemoveAt ==
  [][ last'.op = "removeAt"
        => LET i == last'.idx
               k == IF i < 0 THEN 0 ELSE i
               n == length(Cur)
               path == LogicalPath(Cur)
           IN  /\ ~last'.threw
               /\ i >= n => ProgramState(Nxt) = ProgramState(Cur)
               /\ (i < n /\ n <= 1) => IsEmptyState(Nxt) /\ frames' = {}
               /\ (i < n /\ n > 1)
                    => /\ LogicalPath(Nxt) = WithoutIndex(path, k)
                       /\ length(Nxt) = n - 1
                       /\ HoldsPath(Nxt)
                       /\ MovesCurrentFirst(Cur, k)
                            => /\ state' = "IDLE" /\ frames' = {}
                               /\ getPointOnLine(prevLine', 0 - 1)
                                    = path[IF k = 0 THEN 2 ELSE k]
                               /\ getCurrentIndex(Nxt)
                                    = (IF k = 0 THEN 0 ELSE k - 1)
                       /\ ~MovesCurrentFirst(Cur, k)
                            => /\ state' = state /\ frames' = frames
                               /\ forward' = forward /\ offset' = offset
    ]_vars

C36_Witness ==
  /\ last.op = "removeAt" /\ last.was = "ANIMATING" /\ last.len = 2
  /\ last.idx = 1 /\ ~last.threw
  /\ state = "IDLE" /\ frames = {}
  /\ prevLine = <<Pt("A")>> /\ nextLine = <<Pt("A")>>

\* A step of the animation's lifecycle: next, prev, pause, finishAnimation, a
\* frame or an idle event of the map.
IsLifecycle(op) ==
  op \in {"next", "prev", "pause", "finishAnimation", "frame", "idle"}

\* C37: no step of the animation's lifecycle changes the path: length() and
\* the waypoints in order are after the step what they were before it, in
\* every state; and whenever the step takes the manager back to IDLE, both
\* lines hold waypoints only and end at the same one.
C37_LifecycleKeepsPath ==
  [][ IsLifecycle(last'.op)
        => /\ length(Nxt) = length(Cur)
           /\ LogicalPath(Nxt) = LogicalPath(Cur)
           /\ (state # "IDLE" /\ state' = "IDLE") => IsPathState(Nxt)
    ]_vars

\* The index an animation that was turned round started from: one behind the
\* index it was heading to.
TurnedFrom == run.from + (IF run.fwd THEN 1 ELSE 0 - 1)

\* C38: next() called on an animation that runs or is paused backward from
\* the index c, or prev() on one that runs or is paused forward from c, and
\* then frames alone until the animation completes, leave the manager idle
\* with no frame requested, at the current index c, with both lines as the
\* idle manager at c holds them: what they were before the animation left c.
\* Until then the animation runs the other way on the same path.
C38_TurnReturns ==
  (run.kind = "reverse" /\ run.wf /\ last.op \in {"next", "prev", "frame"})
    => /\ LogicalPath(Cur) = run.path
       /\ TurnedFrom \in 0 .. (Len(run.path) - 1)
       /\ state # "IDLE"
            => /\ state = "ANIMATING" /\ forward = run.fwd
               /\ getCurrentIndex(Cur) = TurnedFrom
               /\ Cardinality(frames) = 1
       /\ state = "IDLE"
            => /\ last.op = "frame" /\ last.idx >= Ticks
               /\ frames = {}
               /\ getCurrentIndex(Cur) = TurnedFrom
               /\ prevLine = Slice(run.path, 0, TurnedFrom + 1)
               /\ nextLine = Reverse(Slice(run.path, TurnedFrom,
                                           Len(run.path)))

C38_Witness ==
  /\ run.kind = "reverse" /\ run.wf /\ ~run.fwd
  /\ last.op = "frame" /\ state = "IDLE"
  /\ run.path = <<Pt("A"), Pt("B"), Pt("C")>> /\ run.from = 2
  /\ prevLine = <<Pt("A"), Pt("B")>> /\ nextLine = <<Pt("C"), Pt("B")>>

\* The moving point of the animation is still the waypoint the animation left
\* and the segment has two different ends: no frame has moved the point yet.
AtStartOfEdge(s) ==
  LET from == getPointOnLine(s.prevLine, 0 - 2)
      to == getPointOnLine(s.nextLine, 0 - 2)
      start == IF s.forward THEN from ELSE to
  IN  /\ from # to
      /\ getPointOnLine(s.prevLine, 0 - 1) = start
      /\ getPointOnLine(s.nextLine, 0 - 1) = start

\* C39 as stated: an animation paused before a frame has moved its point and
\* then resumed in its own direction begins at the start of its edge: the
\* first frame after the resume computes the raw offset 0, whatever offset an
\* earlier animation stored.
C39_ResumeBeginsAtEdgeStart ==
  [][ (/\ last'.op = "frame" /\ last'.first
       /\ run.kind = "resume" /\ run.wf /\ last.op \in {"next", "prev"}
       /\ AtStartOfEdge(Cur))
        => last'.idx = 0 /\ state' = "ANIMATING"
    ]_vars

\* From some point on no method of the manager is called: every step is a
\* frame or an idle event of the map.
CallsCease == <>[][FrameStep \/ IdleStep]_vars

\* C40 as stated: when the calls cease while the manager is animating and
\* the requested frames keep running, the manager is eventually idle with no
\* frame requested; when moreover the map fires the idle event a listener
\* waits for, the callback passed to the next() or prev() that started the
\* animation is eventually run.
C40_AnimationEnds ==
  /\ (CallsCease /\ []<>(state # "PAUSED"))
       => <>[](state = "IDLE" /\ frames = {})
  /\ (/\ CallsCease
      /\ WF_vars(IdleStep)
      /\ []<>(run.kind \in {"start", "restart", "resume", "reverse"}
                /\ run.cb))
       => <>[](cbCalls = 1 /\ Holders("cur") = 0)

====
